---- MODULE Spec2Model ----
(***************************************************************************)
(* Model of gistapi/gistapi.py: the POST /api/v1/search handler, its       *)
(* streaming generator, and the two upstream helpers gists_for_user and    *)
(* gist_files_content.  One request is followed from its arrival to the    *)
(* end of its response; every outbound requests.get is one step.           *)
(***************************************************************************)
EXTENDS Integers, Sequences, FiniteSets, TLC

\* ---------------------------------------------------------------- bounds
MaxGists == 2
MaxFiles == 2

\* ------------------------------------------------------ program constants
DefaultPage == 1
DefaultPerPage == 10
PageMinimum == 1
PerPageMinimum == 1
PerPageMaximum == 100

\* ------------------------------------------------------------ input sets
\* A JSON string is a sequence of characters; a pattern is a JSON string.
\* "(" stands for an unbalanced group, "^" for the start-of-string anchor,
\* "." for the any-character wildcard, every other token is a literal.
PatternStrings == { <<>>, <<"a">>, <<"^", "b">>, <<"(">> }
Contents == { <<"a">>, <<"b", "a">> }
Usernames == { "", "testuser" }
PageValues == { 0, 2 }
PerPageValues == { 0, 100, 101 }
FileNames == { "gistfile1.txt", "gistfile2.txt" }
\* The link relations of a listing response: a single page, a first page with
\* more to come, a last page.
LinkHeaders == { {}, {"next", "last"}, {"prev", "first"} }

\* A field of the posted JSON object: absent, of a wrong JSON type, or typed.
StringField(vals) == { [kind |-> "absent", val |-> ""], [kind |-> "other", val |-> ""] }
                       \cup { [kind |-> "string", val |-> v] : v \in vals }
PatternField == { [kind |-> "absent", val |-> <<>>], [kind |-> "other", val |-> <<>>] }
                 \cup { [kind |-> "string", val |-> v] : v \in PatternStrings }
IntegerField(vals) == { [kind |-> "absent", val |-> 0], [kind |-> "other", val |-> 0] }
                       \cup { [kind |-> "integer", val |-> v] : v \in vals }

EmptyObject == [username |-> [kind |-> "absent", val |-> ""],
                pattern  |-> [kind |-> "absent", val |-> <<>>],
                page     |-> [kind |-> "absent", val |-> 0],
                per_page |-> [kind |-> "absent", val |-> 0]]

\* Request bodies: undecodable, the JSON literal null, a JSON value that is
\* not an object, or an object with any combination of the four fields.
Requests ==
    { [body |-> b, json |-> EmptyObject] : b \in {"invalid_json", "null", "non_object"} }
    \cup { [body |-> "object",
            json |-> [username |-> u, pattern |-> p, page |-> pg, per_page |-> pp]] :
             u \in StringField(Usernames), p \in PatternField,
             pg \in IntegerField(PageValues), pp \in IntegerField(PerPageValues) }

\* The identifier of the i-th gist of a user: "1", "2", ...
GistId(i) == ToString(i)

\* One gist summary of the upstream listing.
GistSummary(id) == [id |-> id, url |-> <<"api.github.com/gists", id>>,
                    html_url |-> <<"gist.github.com", id>>]

\* One entry of a gist's "files" manifest.
FileInfo(id, name) == [filename |-> name, raw_url |-> <<"raw", id, name>>]

RECURSIVE SeqsUpTo(_, _)
SeqsUpTo(S, n) ==
    IF n = 0 THEN { <<>> }
    ELSE LET shorter == SeqsUpTo(S, n - 1)
         IN  shorter \cup { Append(s, x) : s \in shorter, x \in S }

Injective(s) == \A i, j \in 1..Len(s) : s[i] = s[j] => i = j

\* Pages the upstream listing may return: up to MaxGists distinct gists.  A
\* manifest is a JSON object: its keys, the filenames, are distinct.
Listings == { [i \in 1..n |-> GistSummary(GistId(i))] : n \in 0..MaxGists }
Manifests(id) == { [i \in 1..Len(s) |-> FileInfo(id, s[i])] :
                     s \in { t \in SeqsUpTo(FileNames, MaxFiles) : Injective(t) } }

\* ----------------------------------------------------------------- state
VARIABLES
    post_data,      \* the request being handled
    pc,             \* position of the handler / generator
    username, pattern, page, per_page,   \* locals of search (lines 95-98)
    gists, more_pages,                   \* result of gists_for_user (line 107)
    links,                               \* response.links of the listing
    matches,                             \* line 111
    gi,                                  \* index of the gist of the for loop (line 113)
    gist_data,                           \* gist_data["files"] (line 219)
    files_content,                       \* line 220: insertion-ordered dict
    fi,                                  \* index of the file of the loop at line 222
    stream,                              \* chunks yielded by generate, decoded
    response,                            \* what the client gets as HTTP response
    calls,                               \* outbound requests.get calls, in order
    fetched,                             \* history: manifest and files_content of each searched gist
    failure                              \* which upstream call failed, if any

vars == << post_data, pc, username, pattern, page, per_page, gists, more_pages,
           links, matches, gi, gist_data, files_content, fi, stream, response,
           calls, fetched, failure >>

NoResponse == [status_code |-> 0, kind |-> "pending", message |-> <<>>]

Init ==
    /\ post_data \in Requests
    /\ pc = "search"
    /\ username = ""
    /\ pattern = <<>>
    /\ page = 0
    /\ per_page = 0
    /\ gists = <<>>
    /\ more_pages = FALSE
    /\ links = {}
    /\ matches = <<>>
    /\ gi = 0
    /\ gist_data = <<>>
    /\ files_content = <<>>
    /\ fi = 0
    /\ stream = <<>>
    /\ response = NoResponse
    /\ calls = <<>>
    /\ fetched = <<>>
    /\ failure = "none"

\* ------------------------------------------------------- regular expressions
\* A handler that never compiles the pattern before it streams.
re_compile_skipped(p) == TRUE

\* re.compile(pattern): raises re.error on an unbalanced "(".
re_compile_ok(p) == \A k \in 1..Len(p) : p[k] # "("

\* The tokens of p from index k on match s starting at position i.
RECURSIVE MatchAt(_, _, _, _)
MatchAt(p, s, i, k) ==
    IF k > Len(p) THEN TRUE
    ELSE IF p[k] = "^" THEN i = 1 /\ MatchAt(p, s, i, k + 1)
    ELSE /\ i <= Len(s)
         /\ (p[k] = "." \/ p[k] = s[i])
         /\ MatchAt(p, s, i + 1, k + 1)

\* re.match: the pattern only at the start of the content.
re_match(p, s) == MatchAt(p, s, 1, 1)

\* re.search(pattern, content): truthy when the pattern matches anywhere.
re_search(p, s) == \E i \in 1..(Len(s) + 1) : MatchAt(p, s, i, 1)

\* ------------------------------------------------------------ validation
Required == << "username", "pattern" >>

RequiredMessage(name) ==
    IF name = "username" THEN "'username' is a required property"
    ELSE "'pattern' is a required property"

\* Errors of the "required" keyword, in the order of the required list.
RequiredErrors(json) ==
    LET missing(k) == json[Required[k]].kind = "absent"
    IN  (IF missing(1) THEN << RequiredMessage(Required[1]) >> ELSE <<>>)
        \o (IF missing(2) THEN << RequiredMessage(Required[2]) >> ELSE <<>>)

\* Errors of the "properties" keyword, in the order of the schema.
PropertyErrors(json) ==
    (IF json.username.kind = "other"
        THEN << "<username> is not of type 'string'" >> ELSE <<>>)
    \o (IF json.pattern.kind = "other"
        THEN << "<pattern> is not of type 'string'" >> ELSE <<>>)
    \o (IF json.page.kind = "other"
        THEN << "<page> is not of type 'integer'" >> ELSE <<>>)
    \o (IF json.page.kind = "integer" /\ json.page.val < PageMinimum
        THEN << "<page> is less than the minimum of 1" >> ELSE <<>>)
    \o (IF json.per_page.kind = "other"
        THEN << "<per_page> is not of type 'integer'" >> ELSE <<>>)
    \o (IF json.per_page.kind = "integer" /\ json.per_page.val < PerPageMinimum
        THEN << "<per_page> is less than the minimum of 1" >> ELSE <<>>)
    \o (IF json.per_page.kind = "integer" /\ json.per_page.val > PerPageMaximum
        THEN << "<per_page> is greater than the maximum of 100" >> ELSE <<>>)

\* validate(instance, search_input_schema): the message of the error raised
\* (the most relevant one: a top-level error before a property's), or <<>>.
SchemaErrors(data) ==
    IF data.body = "non_object" THEN << "<instance> is not of type 'object'" >>
    ELSE IF RequiredErrors(data.json) # <<>> THEN << Head(RequiredErrors(data.json)) >>
    ELSE IF PropertyErrors(data.json) # <<>> THEN << Head(PropertyErrors(data.json)) >>
    ELSE <<>>

\* The description of the 400 the handler aborts with before it builds the
\* generator, or <<>> when the request passes every check of lines 86-103.
ValidationFailure(data) ==
    IF data.body = "invalid_json" THEN << "BadRequest: failed to decode JSON object" >>
    ELSE IF data.body = "null" THEN << "Invalid JSON data" >>
    ELSE IF SchemaErrors(data) # <<>>
         THEN << "JSON validation error: ", SchemaErrors(data)[1] >>
    ELSE IF ~re_compile_ok(data.json.pattern.val)
         THEN << "Invalid regular expression pattern" >>
    ELSE <<>>

\* post_data.get(key, default)
GetOr(field, default) == IF field.kind = "absent" THEN default ELSE field.val

\* @app.errorhandler(400) / @app.errorhandler(500)
bad_request(description) ==
    [status_code |-> 400, kind |-> "json_error", message |-> description]
internal_error(description) ==
    [status_code |-> 500, kind |-> "json_error", message |-> description]

\* Response(stream_with_context(generate()), content_type="application/json")
StreamingResponse == [status_code |-> 200, kind |-> "stream", message |-> <<>>]

\* abort(500, ...) raised while the generator is being iterated: the view has
\* already returned, so the exception leaves the application through the
\* response iterator.  A WSGI server that has written nothing yet answers
\* with its own error page; otherwise the status line is already out and
\* the body just ends.
AbortedResponses(sent) ==
    IF sent = <<>>
    THEN { [status_code |-> 500, kind |-> "server_error_page", message |-> <<>>],
           [status_code |-> 200, kind |-> "broken_stream", message |-> <<>>] }
    ELSE { [status_code |-> 200, kind |-> "broken_stream", message |-> <<>>] }

\* --------------------------------------------------------- outbound calls
ListingCall(u, pg, pp) == [url |-> <<"api.github.com/users", u, "gists">>,
                           params |-> <<pg, pp>>]
GetCall(url) == [url |-> url, params |-> <<>>]

\* An entry of the call log: the call, whether raise_for_status passed, and
\* the response text (of a raw-content call).
Logged(call, ok, text) ==
    [url |-> call.url, params |-> call.params, ok |-> ok, text |-> text]

\* A listing that takes any link relation for a further page.
MorePagesAnyLink(l) == l # {}

\* more_pages = "next" in response.links
MorePages(l) == "next" \in l

\* ---------------------------------------------------------------- actions
\* The view function up to the construction of the streaming response.
Search ==
    /\ pc = "search"
    /\ IF ValidationFailure(post_data) # <<>>
       THEN /\ response' = bad_request(ValidationFailure(post_data))
            /\ pc' = "done"
            /\ UNCHANGED << username, pattern, page, per_page >>
       ELSE /\ username' = post_data.json.username.val
            /\ pattern' = post_data.json.pattern.val
            /\ page' = GetOr(post_data.json.page, DefaultPage)
            /\ per_page' = GetOr(post_data.json.per_page, DefaultPerPage)
            /\ response' = StreamingResponse
            /\ pc' = "gists_for_user"
    /\ UNCHANGED << post_data, gists, more_pages, links, matches, gi, gist_data,
                    files_content, fi, stream, calls, fetched, failure >>

\* Where the for loop of line 113 goes next once gists_for_user returned or a
\* gist has been searched.
NextGistPc(gs, i) == IF i <= Len(gs) THEN "gist_files_content" ELSE "no_matches"

\* gists_for_user succeeds: lines 107, 188-201 and 111.
GistsForUserOk ==
    /\ pc = "gists_for_user"
    /\ calls' = Append(calls, Logged(ListingCall(username, page, per_page), TRUE, <<>>))
    /\ \E gs \in Listings, l \in LinkHeaders :
         /\ gists' = gs
         /\ links' = l
         /\ more_pages' = MorePages(l)
         /\ pc' = NextGistPc(gs, 1)
    /\ matches' = <<>>
    /\ gi' = 1
    /\ UNCHANGED << post_data, username, pattern, page, per_page, gist_data,
                    files_content, fi, stream, response, fetched, failure >>

\* gists_for_user raises RuntimeError: lines 191-195, then 108-109.
GistsForUserError ==
    /\ pc = "gists_for_user"
    /\ calls' = Append(calls, Logged(ListingCall(username, page, per_page), FALSE, <<>>))
    /\ failure' = "listing"
    /\ response' \in AbortedResponses(stream)
    /\ pc' = "aborted"
    /\ UNCHANGED << post_data, username, pattern, page, per_page, gists,
                    more_pages, links, matches, gi, gist_data, files_content,
                    fi, stream, fetched >>

\* A file loop that stops one entry short of the manifest.
NextFilePcShort(files, i) == IF i < Len(files) THEN "raw_file" ELSE "search_files"

\* Where gist_files_content goes after the manifest or a file: the next file
\* of the loop at line 222, or back to generate (line 115).
NextFilePc(files, i) == IF i <= Len(files) THEN "raw_file" ELSE "search_files"

\* gist_files_content, manifest fetched: lines 213-220.
GistFilesContentOk ==
    /\ pc = "gist_files_content"
    /\ calls' = Append(calls, Logged(GetCall(gists[gi].url), TRUE, <<>>))
    /\ \E m \in Manifests(gists[gi].id) :
         /\ gist_data' = m
         /\ pc' = NextFilePc(m, 1)
    /\ files_content' = <<>>
    /\ fi' = 1
    /\ UNCHANGED << post_data, username, pattern, page, per_page, gists,
                    more_pages, links, matches, gi, stream, response, fetched,
                    failure >>

\* gist_files_content, manifest fetch fails: lines 213-217.
GistFilesContentError ==
    /\ pc = "gist_files_content"
    /\ calls' = Append(calls, Logged(GetCall(gists[gi].url), FALSE, <<>>))
    /\ failure' = "manifest"
    /\ response' \in AbortedResponses(stream)
    /\ pc' = "aborted"
    /\ UNCHANGED << post_data, username, pattern, page, per_page, gists,
                    more_pages, links, matches, gi, gist_data, files_content,
                    fi, stream, fetched >>

\* One iteration of the loop at line 222, the file fetched: lines 223-226.
RawFileOk ==
    /\ pc = "raw_file"
    /\ \E text \in Contents :
         /\ calls' = Append(calls, Logged(GetCall(gist_data[fi].raw_url), TRUE, text))
         /\ files_content' = Append(files_content, << gist_data[fi].filename, text >>)
    /\ fi' = fi + 1
    /\ pc' = NextFilePc(gist_data, fi + 1)
    /\ UNCHANGED << post_data, username, pattern, page, per_page, gists,
                    more_pages, links, matches, gi, gist_data, stream, response,
                    fetched, failure >>

\* A file loop that skips a file it could not fetch and carries on.
RawFileErrorSkipped ==
    /\ pc = "raw_file"
    /\ calls' = Append(calls, Logged(GetCall(gist_data[fi].raw_url), FALSE, <<>>))
    /\ failure' = "raw"
    /\ fi' = fi + 1
    /\ pc' = NextFilePc(gist_data, fi + 1)
    /\ UNCHANGED << post_data, username, pattern, page, per_page, gists,
                    more_pages, links, matches, gi, gist_data, files_content,
                    stream, response, fetched >>

\* One iteration of the loop at line 222, the fetch fails: lines 227-228.
RawFileError ==
    /\ pc = "raw_file"
    /\ calls' = Append(calls, Logged(GetCall(gist_data[fi].raw_url), FALSE, <<>>))
    /\ failure' = "raw"
    /\ response' \in AbortedResponses(stream)
    /\ pc' = "aborted"
    /\ UNCHANGED << post_data, username, pattern, page, per_page, gists,
                    more_pages, links, matches, gi, gist_data, files_content,
                    fi, stream, fetched >>

\* The match record of lines 117-121.
MatchRecord(gist, filename) ==
    [gist_id |-> gist.id, filename |-> filename, url |-> gist.html_url]

\* The streamed chunk of lines 124-131.
SuccessPart(u, p, pg, more, match) ==
    [status |-> "success", username |-> u, pattern |-> p,
     matches |-> << match >>, page |-> pg, more_pages |-> more]

\* The chunk of lines 143-150.
NoMatchesPart(u, p, pg, more) ==
    [status |-> "no matches", username |-> u, pattern |-> p,
     matches |-> <<>>, page |-> pg, more_pages |-> more]

\* The records of one gist: the files of gist_files, in the dict's order,
\* whose content the pattern matches (lines 115-122).
RECURSIVE GistMatches(_, _, _)
GistMatches(gist, files, p) ==
    IF files = <<>> THEN <<>>
    ELSE (IF re_search(p, Head(files)[2])
             THEN << MatchRecord(gist, Head(files)[1]) >> ELSE <<>>)
         \o GistMatches(gist, Tail(files), p)

\* The inner loop of generate over the files of the current gist: lines
\* 115-140, every match appended to matches and yielded as its own chunk.
SearchFiles ==
    /\ pc = "search_files"
    /\ LET found == GistMatches(gists[gi], files_content, pattern)
       IN  /\ matches' = matches \o found
           /\ stream' = stream \o
                [k \in 1..Len(found) |->
                    SuccessPart(username, pattern, page, more_pages, found[k])]
    /\ fetched' = Append(fetched, [manifest |-> gist_data, content |-> files_content])
    /\ gi' = gi + 1
    /\ pc' = NextGistPc(gists, gi + 1)
    /\ UNCHANGED << post_data, username, pattern, page, per_page, gists,
                    more_pages, links, gist_data, files_content, fi, response,
                    calls, failure >>

\* An end of generate that reports "no matches" whatever was found.
FinalPartsAlways(ms, u, p, pg, more) == << NoMatchesPart(u, p, pg, more) >>

\* The chunks yielded after the loop: lines 142-151.
FinalParts(ms, u, p, pg, more) ==
    IF ms = <<>> THEN << NoMatchesPart(u, p, pg, more) >> ELSE <<>>

\* The end of generate: lines 142-151.
NoMatches ==
    /\ pc = "no_matches"
    /\ stream' = stream \o FinalParts(matches, username, pattern, page, more_pages)
    /\ pc' = "done"
    /\ UNCHANGED << post_data, username, pattern, page, per_page, gists,
                    more_pages, links, matches, gi, gist_data, files_content,
                    fi, response, calls, fetched, failure >>

Next ==
    \/ Search
    \/ GistsForUserOk
    \/ GistsForUserError
    \/ GistFilesContentOk
    \/ GistFilesContentError
    \/ RawFileOk
    \/ RawFileError
    \/ SearchFiles
    \/ NoMatches

Spec == Init /\ [][Next]_vars

TypeOK ==
    /\ pc \in {"search", "gists_for_user", "gist_files_content", "raw_file",
               "search_files", "no_matches", "done", "aborted"}
    /\ failure \in {"none", "listing", "manifest", "raw"}

\* ================================================================ claims
\* The match records the caller has received: the records of the streamed
\* chunks, in the order of the chunks.
RECURSIVE StreamedMatches(_)
StreamedMatches(st) ==
    IF st = <<>> THEN <<>> ELSE Head(st).matches \o StreamedMatches(Tail(st))

\* The pattern matches somewhere in the text.
Occurs(p, s) == \E i \in 1..(Len(s) + 1) : MatchAt(p, s, i, 1)

\* Number of outbound calls made for the first n searched gists.
RECURSIVE CallsOfGists(_)
CallsOfGists(n) ==
    IF n = 0 THEN 0 ELSE CallsOfGists(n - 1) + 1 + Len(fetched[n].manifest)

\* Index in the call log of the raw-content call of file j of gist i.
RawCallIndex(i, j) == 1 + CallsOfGists(i - 1) + 1 + j

\* The (gist, file) positions of the listed page whose returned text the
\* pattern matches anywhere.
MatchingPairs ==
    UNION { { << i, j >> : j \in { k \in 1..Len(fetched[i].manifest) :
                                     Occurs(pattern, calls[RawCallIndex(i, k)].text) } } :
            i \in 1..Len(fetched) }

AllPairs ==
    UNION { { << i, j >> : j \in 1..Len(fetched[i].manifest) } : i \in 1..Len(fetched) }

\* Position of a pair in discovery order (gist order outer, file order inner).
Rank(q) ==
    Cardinality({ r \in MatchingPairs : r[1] < q[1] \/ (r[1] = q[1] /\ r[2] <= q[2]) })

SearchSucceeded == pc = "done" /\ response.kind = "stream" /\ failure = "none"

\* C1: when a validated search ends with every upstream call succeeded, the
\* records received are exactly one {gist id, filename, html url} per (gist,
\* file) pair of the listed page whose content the pattern matches anywhere,
\* in discovery order, and nothing else.
C1_MatchesExactAndOrdered ==
    SearchSucceeded =>
        /\ Len(fetched) = Len(gists)
        /\ Len(StreamedMatches(stream)) = Cardinality(MatchingPairs)
        /\ matches = StreamedMatches(stream)
        /\ \A q \in MatchingPairs :
             StreamedMatches(stream)[Rank(q)] =
                [gist_id  |-> gists[q[1]].id,
                 filename |-> fetched[q[1]].manifest[q[2]].filename,
                 url      |-> gists[q[1]].html_url]

\* Two gists, both with a matching file, and a file that does not match.
C1_Witness ==
    /\ SearchSucceeded
    /\ Len(gists) = 2
    /\ \E q \in MatchingPairs : q[1] = 1
    /\ \E q \in MatchingPairs : q[1] = 2
    /\ MatchingPairs # AllPairs
    /\ Len(StreamedMatches(stream)) >= 3

\* C2: every result of a search carries status "success" exactly when its
\* match sequence is non-empty and "no matches" exactly when it is empty; a
\* completed search reports "success" iff it found a match and "no matches"
\* iff it found none.
C2_StatusIffMatches ==
    /\ \A k \in 1..Len(stream) :
         /\ stream[k].status \in {"success", "no matches"}
         /\ stream[k].status = "success" <=> stream[k].matches # <<>>
         /\ stream[k].status = "no matches" <=> stream[k].matches = <<>>
    /\ SearchSucceeded =>
         /\ (\E k \in 1..Len(stream) : stream[k].status = "success")
                <=> StreamedMatches(stream) # <<>>
         /\ (\E k \in 1..Len(stream) : stream[k].status = "no matches")
                <=> StreamedMatches(stream) = <<>>
         /\ stream # <<>>

\* A completed search that found a match in one file and none in another.
C2_Witness ==
    /\ SearchSucceeded
    /\ StreamedMatches(stream) # <<>>
    /\ MatchingPairs # AllPairs
    /\ \A k \in 1..Len(stream) : stream[k].status = "success"

\* The request fails one of the checks named by the claim.
FailsValidation ==
    \/ post_data.body # "object"
    \/ post_data.json.username.kind = "absent"
    \/ post_data.json.pattern.kind = "absent"
    \/ post_data.json.page.kind = "integer" /\ post_data.json.page.val < 1
    \/ post_data.json.per_page.kind = "integer"
         /\ (post_data.json.per_page.val < 1 \/ post_data.json.per_page.val > 100)
    \/ \E k \in 1..Len(post_data.json.pattern.val) : post_data.json.pattern.val[k] = "("

\* C3: a request that fails validation is answered 400 and no outbound call
\* is issued at any point of its handling.
C3_ValidationBeforeNetwork ==
    FailsValidation =>
        /\ calls = <<>>
        /\ stream = <<>>
        /\ pc \in {"search", "done"}
        /\ pc = "done" => response.status_code = 400 /\ response.kind = "json_error"

\* An otherwise valid request whose pattern does not compile, answered.
C3_Witness ==
    /\ pc = "done"
    /\ post_data.body = "object"
    /\ post_data.json.username = [kind |-> "string", val |-> "testuser"]
    /\ post_data.json.pattern = [kind |-> "string", val |-> <<"(">>]
    /\ post_data.json.page.kind = "absent"
    /\ post_data.json.per_page.kind = "absent"
    /\ response.status_code = 400
    /\ calls = <<>>

\* C4: a body without `pattern` is answered 400 {"status":"error",
\* "message":"Pattern is required"}, a body without `username` 400
\* {"status":"error","message":"Username is required"}.
C4_RequiredFieldMessage ==
    (pc = "done" /\ post_data.body = "object"
       /\ post_data.json.page.kind = "absent" /\ post_data.json.per_page.kind = "absent")
    => /\ (post_data.json.username = [kind |-> "string", val |-> "testuser"]
             /\ post_data.json.pattern.kind = "absent")
            => response = [status_code |-> 400, kind |-> "json_error",
                           message |-> << "Pattern is required" >>]
       /\ (post_data.json.username.kind = "absent"
             /\ post_data.json.pattern = [kind |-> "string", val |-> <<"a">>])
            => response = [status_code |-> 400, kind |-> "json_error",
                           message |-> << "Username is required" >>]

\* C5: a request whose username or pattern is the empty string is rejected
\* with a 400 error, never reaches the listing call and never produces a
\* "success" or "no matches" result.
C5_EmptyFieldRejected ==
    (post_data.body = "object"
       /\ (post_data.json.username = [kind |-> "string", val |-> ""]
             \/ post_data.json.pattern = [kind |-> "string", val |-> <<>>]))
    => /\ calls = <<>>
       /\ stream = <<>>
       /\ pc # "search" => response.status_code = 400 /\ response.kind = "json_error"

\* The request names a user and a non-empty pattern that compiles, and its
\* page and per_page are in range.
AcceptableRequest ==
    /\ response.kind \notin {"pending", "json_error"}
    /\ username # ""
    /\ pattern # <<>>

\* C6: when the listing call of a validated request fails, the response is a
\* 500 with a JSON body {status:"error", message}, no result record is
\* returned and no manifest or raw-content call follows.
C6_ListingFailureIsJson500 ==
    (AcceptableRequest /\ failure = "listing") =>
        /\ response.status_code = 500
        /\ response.kind = "json_error"
        /\ stream = <<>>
        /\ Len(calls) = 1

\* C7: a manifest or raw-content failure leaves the caller with the error
\* outcome only: none of the match records discovered before the failure
\* reaches the caller, wherever the failing gist stands in the listing.
C7_NoPartialResults ==
    (AcceptableRequest /\ failure \in {"manifest", "raw"}) => stream = <<>>

\* The page the request asks for (1 when absent).
RequestedPage ==
    IF post_data.json.page.kind = "absent" THEN 1 ELSE post_data.json.page.val

\* C8: in every result record more_pages is true exactly when the listing
\* response advertised a "next" link relation and page is the requested page
\* (1 when absent), whatever the number of gists listed or matches found.
C8_PagePassThrough ==
    \A k \in 1..Len(stream) :
        /\ stream[k].more_pages = ("next" \in links)
        /\ stream[k].page = RequestedPage

\* A last page (no "next" relation) with gists and matches, page 2 requested.
C8_Witness ==
    /\ SearchSucceeded
    /\ links = {"prev", "first"}
    /\ Len(gists) = 2
    /\ Len(stream) >= 2
    /\ stream[1].more_pages = FALSE
    /\ stream[1].page = 2

\* URLs of the calls of the first n searched gists: per gist the manifest
\* call, then one raw-content call per manifest entry in manifest order.
RECURSIVE UrlsOfGists(_)
UrlsOfGists(n) ==
    IF n = 0 THEN <<>>
    ELSE UrlsOfGists(n - 1) \o << gists[n].url >>
         \o [j \in 1..Len(fetched[n].manifest) |-> fetched[n].manifest[j].raw_url]

\* URLs of the calls made so far for the gist being fetched.
UrlsOfCurrentGist ==
    IF pc \in {"raw_file", "search_files"}
    THEN << gists[gi].url >> \o [j \in 1..(fi - 1) |-> gist_data[j].raw_url]
    ELSE IF pc = "aborted" /\ failure = "manifest" THEN << gists[gi].url >>
    ELSE IF pc = "aborted" /\ failure = "raw"
    THEN << gists[gi].url >> \o [j \in 1..fi |-> gist_data[j].raw_url]
    ELSE <<>>

\* C9: the outbound calls of a validated search are, in order, one listing
\* call, then per listed gist in listing order one manifest call followed by
\* one raw-content call per manifest entry in manifest order; a fully
\* successful search over n gists with f_1..f_n files issues 1 + n + (f_1 +
\* ... + f_n) calls, and one gist with k files costs 1 + k calls.
C9_CallsSequentialAndCounted ==
    /\ pc \in {"search", "gists_for_user"} => calls = <<>>
    /\ pc \notin {"search", "gists_for_user"} /\ response.kind # "json_error" =>
         /\ calls # <<>>
         /\ calls[1].url = << "api.github.com/users", username, "gists" >>
         /\ calls[1].params = << page, per_page >>
         /\ [k \in 1..(Len(calls) - 1) |-> calls[k + 1].url]
               = UrlsOfGists(Len(fetched)) \o UrlsOfCurrentGist
    /\ pc = "search_files" => Len(UrlsOfCurrentGist) = 1 + Len(gist_data)
    /\ SearchSucceeded =>
         /\ Len(fetched) = Len(gists)
         /\ Len(calls) = 1 + Len(gists) + Cardinality(AllPairs)

\* A successful search over two gists, one with two files and one with one.
C9_Witness ==
    /\ SearchSucceeded
    /\ Len(gists) = 2
    /\ Len(fetched[1].manifest) = 2
    /\ Len(fetched[2].manifest) = 1
    /\ Len(calls) = 6

\* C10: gist_files_content is all-or-nothing and fail-fast without retry: a
\* failed manifest or raw-content fetch ends it in an error with no mapping
\* returned and no later file fetched, no failed call is repeated, and a
\* returned mapping has exactly the manifest's filenames, each with the text
\* returned for its raw URL.
C10_AllOrNothing ==
    /\ pc = "search_files" =>
         /\ Len(files_content) = Len(gist_data)
         /\ Len(calls) > Len(gist_data)
         /\ \A j \in 1..Len(gist_data) :
              LET c == calls[Len(calls) - Len(gist_data) + j]
              IN  /\ c.url = gist_data[j].raw_url
                  /\ c.ok
                  /\ files_content[j] = << gist_data[j].filename, c.text >>
    /\ failure \in {"manifest", "raw"} =>
         /\ pc = "aborted"
         /\ Len(fetched) = gi - 1
         /\ Len(calls) = 1 + CallsOfGists(gi - 1)
                           + (IF failure = "manifest" THEN 1 ELSE 1 + fi)
    /\ \A k \in 1..Len(calls) : ~calls[k].ok => k = Len(calls) /\ pc = "aborted"

\* The first of two files cannot be fetched: the second is never asked for.
C10_Witness ==
    /\ pc = "aborted"
    /\ failure = "raw"
    /\ Len(gist_data) = 2
    /\ fi = 1
    /\ calls[Len(calls)].url = gist_data[1].raw_url

====
